---- MODULE Spec2Model ----
(***************************************************************************)
(* Model of p1.py: a Tk form that picks a Gemini model at start-up         *)
(* (choose_best_model), and on each "Diagnose" click sends the typed       *)
(* symptoms to the generation endpoint (get_diagnosis) and shows the       *)
(* returned text.                                                          *)
(*                                                                         *)
(* Python strings whose characters matter (texts that are stripped or      *)
(* concatenated) are sequences of pieces: a piece is one character or an   *)
(* unbroken literal of the program.  Model names are atomic strings.       *)
(***************************************************************************)
EXTENDS Integers, Sequences, FiniteSets, TLC

VARIABLES pc, api_key, client, listCalls, selection, CHOSEN_MODEL,
          symptom_input, output_box, warnings, genCalls, genModels,
          lastPrompt, lastRet, call_arg, call_ret

vars == <<pc, api_key, client, listCalls, selection, CHOSEN_MODEL,
          symptom_input, output_box, warnings, genCalls, genModels,
          lastPrompt, lastRet, call_arg, call_ret>>

(***************************************************************************)
(* Bounds                                                                  *)
(***************************************************************************)
MaxCatalog == 2

MaxInput == 2

MaxText == 3

MaxDiagnose == 2

(***************************************************************************)
(* Python values                                                           *)
(***************************************************************************)
\* A Python value as far as the program inspects it: None, a str (pieces in
\* items), a list of str (items), an int (num), or some other object.
PyNone == [shape |-> "none", items |-> <<>>, num |-> 0]

PyStr(s) == [shape |-> "str", items |-> s, num |-> 0]

PyList(l) == [shape |-> "list", items |-> l, num |-> 0]

PyInt(n) == [shape |-> "int", items |-> <<>>, num |-> n]

PyObj == [shape |-> "obj", items |-> <<>>, num |-> 0]

\* bool(v)
Truthy(v) ==
    CASE v.shape = "none" -> FALSE
      [] v.shape = "str"  -> Len(v.items) > 0
      [] v.shape = "list" -> Len(v.items) > 0
      [] v.shape = "int"  -> v.num # 0
      [] OTHER            -> TRUE

\* isinstance(v, str)
IsStr(v) == v.shape = "str"

\* The outcome of evaluating an expression or a call: a value or an exception.
Return(v) == [kind |-> "return", value |-> v]

Raise(m) == [kind |-> "raise", value |-> m]

WhiteSpace == {" ", "\n", "\t"}

RECURSIVE LStrip(_)
LStrip(s) ==
    IF s # <<>> /\ Head(s) \in WhiteSpace THEN LStrip(Tail(s)) ELSE s

RECURSIVE RStrip(_)
RStrip(s) ==
    IF s # <<>> /\ s[Len(s)] \in WhiteSpace
    THEN RStrip(SubSeq(s, 1, Len(s) - 1))
    ELSE s

\* str.strip() of the leading part only: not what the program calls
StripLeadingOnly(s) == LStrip(s)

\* str.strip()
Strip(s) == RStrip(LStrip(s))

(***************************************************************************)
(* Model selector                                                          *)
(***************************************************************************)
PREFERRED_MODELS ==
    << "models/gemini-2.5-pro",
       "models/gemini-2.5-flash",
       "models/gemini-2.5-flash-lite",
       "models/gemini-1.5-pro",
       "models/gemini-1.5-pro-latest" >>

\* the literal returned at lines 35 and 56
FallbackModel == "models/gemini-2.5-pro"

GenerateContent == "generateContent"

\* needle in haystack, for a haystack of each shape: membership for a list,
\* substring for a str, TypeError for a value that is no container.
Contains(needle, hay) ==
    CASE hay.shape = "list" ->
           Return(\E i \in 1..Len(hay.items) : hay.items[i] = needle)
      [] hay.shape = "str" ->
           Return(\E i \in 1..Len(hay.items) : hay.items[i] = needle)
      [] OTHER -> Raise("TypeError: argument is not iterable")

\* methods and "generateContent" in methods
Advertises(methods) ==
    IF ~Truthy(methods) THEN Return(FALSE) ELSE Contains(GenerateContent, methods)

\* valid[name] = True on an insertion-ordered dict, kept as its key sequence
DictSet(valid, name) ==
    IF \E i \in 1..Len(valid) : valid[i] = name THEN valid ELSE Append(valid, name)

\* the loop of lines 39-46 from entry i on; an entry is
\* [hasName, name, methods], hasName = FALSE when the attribute is absent
RECURSIVE BuildValid(_, _, _)
BuildValid(entries, i, valid) ==
    IF i > Len(entries) THEN Return(valid)
    ELSE LET m == entries[i]
             adv == Advertises(m.methods)
         IN  IF ~m.hasName \/ m.name = "" THEN BuildValid(entries, i + 1, valid)
             ELSE IF adv.kind = "raise" THEN adv
             ELSE IF adv.value THEN BuildValid(entries, i + 1, DictSet(valid, m.name))
             ELSE BuildValid(entries, i + 1, valid)

\* the loop of lines 48-50 from index i on: the first preferred name in valid
RECURSIVE FirstPreferred(_, _)
FirstPreferred(valid, i) ==
    IF i > Len(PREFERRED_MODELS) THEN ""
    ELSE IF \E k \in 1..Len(valid) : valid[k] = PREFERRED_MODELS[i]
         THEN PREFERRED_MODELS[i]
         ELSE FirstPreferred(valid, i + 1)

\* choose_best_model() against a catalog behaviour cat =
\* [listOk, entries, iterOk]: client.models.list() raises (listOk = FALSE), or
\* returns an iterable that yields entries and then ends (iterOk) or raises.
choose_best_model(cat) ==
    IF ~cat.listOk THEN Return(FallbackModel)
    ELSE LET built == BuildValid(cat.entries, 1, <<>>)
         IN  IF built.kind = "raise" THEN built
             ELSE IF ~cat.iterOk THEN Raise("error while iterating the catalog")
             ELSE LET valid == built.value
                      pref == FirstPreferred(valid, 1)
                  IN  IF pref # "" THEN Return(pref)
                      ELSE IF valid # <<>> THEN Return(valid[1])
                      ELSE Return(FallbackModel)

(***************************************************************************)
(* Diagnosis requester                                                     *)
(***************************************************************************)
\* the prompt of lines 95-141: a fixed template around the symptoms
Prompt(symptoms) ==
    <<"You are a medical assistant. The user reports the following symptoms: ">>
        \o symptoms \o <<"\n", "Main Advice: ... Medical Disclaimer: ...">>

Sentinel == <<"Received unexpected response format from Gemini API.">>

ErrorPrefix == <<"Error contacting Gemini API:", "\n">>

\* f"Error contacting Gemini API:\n{e}"
ErrorString(msg) == ErrorPrefix \o msg

\* getattr(first, "content", None) or getattr(first, "text", None)
ContentOrText(first) ==
    IF Truthy(first.content) THEN first.content ELSE first.text

\* len(candidates)
PyLen(v) ==
    IF v.shape = "list" THEN Return(Len(v.items))
    ELSE Raise(<<"object of type '", v.shape, "' has no len()">>)

\* lines 147-156 on a response [text, candidates]; a candidate is
\* [content, text], an absent attribute being None
Extract(response) ==
    IF IsStr(response.text) THEN Return(Strip(response.text.items))
    ELSE LET candidates == response.candidates
             n == PyLen(candidates)
         IN  IF ~Truthy(candidates) THEN Return(Sentinel)
             ELSE IF n.kind = "raise" THEN n
             ELSE IF n.value > 0
                  THEN LET content == ContentOrText(candidates.items[1])
                       IN  IF IsStr(content) THEN Return(Strip(content.items))
                           ELSE Return(Sentinel)
                  ELSE Return(Sentinel)

\* the body of the try block: the generation call, then the extraction; a
\* generation outcome is [kind, response, msg]
TryBody(outcome) ==
    IF outcome.kind = "raise" THEN Raise(outcome.msg) ELSE Extract(outcome.response)

\* get_diagnosis without its except clause
GetDiagnosisUncaught(symptoms, outcome) == TryBody(outcome)

\* get_diagnosis(symptoms) when the generation call ends as outcome
get_diagnosis(symptoms, outcome) ==
    LET r == TryBody(outcome)
    IN  IF r.kind = "raise" THEN Return(ErrorString(r.value)) ELSE r

(***************************************************************************)
(* What the environment can supply                                         *)
(***************************************************************************)
\* all sequences over S of length at most n
SeqsUpTo(S, n) == UNION {[1..k -> S] : k \in 0..n}

\* os.getenv("GOOGLE_API_KEY"): unset, set to "", set to a key
EnvKeys == {[set |-> FALSE, v |-> ""], [set |-> TRUE, v |-> ""],
            [set |-> TRUE, v |-> "AIza-key"]}

OtherModels == {"models/gemma-3", "models/text-bison"}

PreferredSet == {PREFERRED_MODELS[i] : i \in 1..Len(PREFERRED_MODELS)}

NameAttrs ==
    {[hasName |-> FALSE, name |-> ""], [hasName |-> TRUE, name |-> ""]}
    \cup {[hasName |-> TRUE, name |-> n] : n \in PreferredSet \cup OtherModels}

MethodAttrs ==
    {PyNone, PyList(<<"embedContent">>), PyList(<<"countTokens", GenerateContent>>),
     PyInt(5), PyStr(<<GenerateContent>>)}

Entries ==
    {[hasName |-> a.hasName, name |-> a.name, methods |-> m] :
        a \in NameAttrs, m \in MethodAttrs}

CatalogBehaviours ==
    {[listOk |-> FALSE, entries |-> <<>>, iterOk |-> FALSE]}
    \cup {[listOk |-> TRUE, entries |-> es, iterOk |-> ok] :
            es \in SeqsUpTo(Entries, MaxCatalog), ok \in BOOLEAN}

\* what the user can have typed into the symptoms box
InputChars == {" ", "a"}

InputTexts == SeqsUpTo(InputChars, MaxInput)

RespChars == {" ", "\n", "a"}

RespTexts == SeqsUpTo(RespChars, MaxText)

CandTexts == {<<>>, <<"see a doctor">>, <<" ", "rest", "\n">>}

Candidates ==
    {[content |-> c, text |-> t] :
        c \in {PyNone, PyObj} \cup {PyStr(x) : x \in CandTexts},
        t \in {PyNone} \cup {PyStr(x) : x \in CandTexts}}

SecondCandidate == [content |-> PyStr(<<"second opinion">>), text |-> PyNone]

CandidateAttrs ==
    {PyNone, PyList(<<>>), PyInt(5)}
    \cup {PyList(<<c>>) : c \in Candidates}
    \cup {PyList(<<c, SecondCandidate>>) : c \in Candidates}

Responses ==
    {[text |-> t, candidates |-> cs] :
        t \in {PyNone, PyObj} \cup {PyStr(x) : x \in RespTexts},
        cs \in CandidateAttrs}

NoResponse == [text |-> PyNone, candidates |-> PyNone]

ErrorMessages == {<<>>, <<"timeout">>, <<" ", "quota exceeded", "\n">>}

GenOutcomes ==
    {[kind |-> "return", response |-> r, msg |-> <<>>] : r \in Responses}
    \cup {[kind |-> "raise", response |-> NoResponse, msg |-> m] : m \in ErrorMessages}

\* the generation outcomes the running form is exercised with: one per path
\* of get_diagnosis
FormOutcomes ==
    {[kind |-> "raise", response |-> NoResponse, msg |-> <<"timeout">>],
     [kind |-> "return", msg |-> <<>>,
      response |-> [text |-> PyStr(<<" ", "a", "\n">>), candidates |-> PyNone]],
     [kind |-> "return", msg |-> <<>>,
      response |-> [text |-> PyNone, candidates |->
                      PyList(<<[content |-> PyStr(<<"see a doctor">>), text |-> PyNone]>>)]],
     [kind |-> "return", msg |-> <<>>,
      response |-> [text |-> PyNone, candidates |->
                      PyList(<<[content |-> PyObj, text |-> PyStr(<<"see a doctor">>)]>>)]],
     [kind |-> "return", msg |-> <<>>,
      response |-> [text |-> PyObj, candidates |-> PyInt(5)]],
     [kind |-> "return", msg |-> <<>>, response |-> NoResponse]}

(***************************************************************************)
(* The process: start-up, then the Tk main loop                            *)
(***************************************************************************)
Undefined == "<undefined>"

Pending == [kind |-> "pending", value |-> ""]

Idle == [kind |-> "idle", value |-> <<>>]

Init ==
    /\ pc = "start"
    /\ api_key \in EnvKeys
    /\ client = FALSE
    /\ listCalls = 0
    /\ selection = Pending
    /\ CHOSEN_MODEL = Undefined
    /\ symptom_input = <<>>
    /\ output_box = <<>>
    /\ warnings = 0
    /\ genCalls = 0
    /\ genModels = {}
    /\ lastPrompt = <<>>
    /\ lastRet = Idle
    /\ call_arg = Idle
    /\ call_ret = Idle

\* not api_key
KeyMissing == ~api_key.set \/ api_key.v = ""

\* lines 7-13: load the credential, stop when it is missing
CheckCredential ==
    /\ pc = "start"
    /\ pc' = IF KeyMissing THEN "fatal" ELSE "configured"
    /\ UNCHANGED <<api_key, client, listCalls, selection, CHOSEN_MODEL,
                   symptom_input, output_box, warnings, genCalls, genModels,
                   lastPrompt, lastRet, call_arg, call_ret>>

\* lines 16-19: client = genai.Client()
CreateClient ==
    /\ pc = "configured"
    /\ client' = TRUE
    /\ pc' = "client"
    /\ UNCHANGED <<api_key, listCalls, selection, CHOSEN_MODEL,
                   symptom_input, output_box, warnings, genCalls, genModels,
                   lastPrompt, lastRet, call_arg, call_ret>>

\* line 59: CHOSEN_MODEL = choose_best_model(); an exception leaving the call
\* ends the import, and with it the process
SelectModel ==
    /\ pc = "client"
    /\ \E cat \in CatalogBehaviours :
         LET r == choose_best_model(cat)
         IN  /\ selection' = r
             /\ IF r.kind = "return"
                THEN CHOSEN_MODEL' = r.value /\ pc' = "selected"
                ELSE CHOSEN_MODEL' = CHOSEN_MODEL /\ pc' = "crashed"
    /\ listCalls' = listCalls + 1
    /\ UNCHANGED <<api_key, client,
                   symptom_input, output_box, warnings, genCalls, genModels,
                   lastPrompt, lastRet, call_arg, call_ret>>

\* lines 162-210: build the window and enter root.mainloop()
BuildGUI ==
    /\ pc = "selected"
    /\ pc' = "mainloop"
    /\ symptom_input' = <<>>
    /\ output_box' = <<>>
    /\ UNCHANGED <<api_key, client, listCalls, selection, CHOSEN_MODEL,
                   warnings, genCalls, genModels,
                   lastPrompt, lastRet, call_arg, call_ret>>

\* the user edits the symptoms box
EditSymptoms ==
    /\ pc = "mainloop"
    /\ \E t \in InputTexts : symptom_input' = t
    /\ UNCHANGED <<pc, api_key, client, listCalls, selection, CHOSEN_MODEL,
                   output_box, warnings, genCalls, genModels,
                   lastPrompt, lastRet, call_arg, call_ret>>

\* symptom_input.get("1.0", tk.END): the content and the widget's final newline
TkGet(content) == content \o <<"\n">>

\* line 178 without the strip
ReadSymptomsRaw(content) == TkGet(content)

\* line 178: symptom_input.get("1.0", tk.END).strip()
ReadSymptoms(content) == Strip(TkGet(content))

\* model=CHOSEN_MODEL at line 144, were it the literal default instead
ModelArgFallback == FallbackModel

\* model=CHOSEN_MODEL at line 144
ModelArg == CHOSEN_MODEL

\* diagnose(), lines 177-189, the call of get_diagnosis included
Diagnose ==
    /\ pc = "mainloop"
    /\ warnings + genCalls < MaxDiagnose
    /\ LET symptoms == ReadSymptoms(symptom_input)
       IN  IF symptoms = <<>>
           THEN /\ warnings' = warnings + 1
                /\ UNCHANGED <<output_box, genCalls, genModels, lastPrompt, lastRet>>
           ELSE \E outcome \in FormOutcomes :
                  LET result == get_diagnosis(symptoms, outcome)
                  IN  /\ genCalls' = genCalls + 1
                      /\ genModels' = genModels \cup {ModelArg}
                      /\ lastPrompt' = Prompt(symptoms)
                      /\ lastRet' = result
                      /\ output_box' = result.value
                      /\ UNCHANGED warnings
    /\ UNCHANGED <<pc, api_key, client, listCalls, selection, CHOSEN_MODEL,
                   symptom_input, call_arg, call_ret>>

Next ==
    \/ CheckCredential
    \/ CreateClient
    \/ SelectModel
    \/ BuildGUI
    \/ EditSymptoms
    \/ Diagnose

Spec == Init /\ [][Next]_vars

(***************************************************************************)
(* choose_best_model applied to every catalog behaviour                    *)
(***************************************************************************)
InitSelector ==
    /\ pc = "selector_call"
    /\ api_key \in {k \in EnvKeys : k.set /\ k.v # ""}
    /\ client = TRUE
    /\ listCalls = 0
    /\ selection = Pending
    /\ CHOSEN_MODEL = Undefined
    /\ symptom_input = <<>>
    /\ output_box = <<>>
    /\ warnings = 0
    /\ genCalls = 0
    /\ genModels = {}
    /\ lastPrompt = <<>>
    /\ lastRet = Idle
    /\ call_arg \in CatalogBehaviours
    /\ call_ret = Pending

ApplySelector ==
    /\ pc = "selector_call"
    /\ call_ret' = choose_best_model(call_arg)
    /\ listCalls' = listCalls + 1
    /\ pc' = "selector_done"
    /\ UNCHANGED <<api_key, client, selection, CHOSEN_MODEL,
                   symptom_input, output_box, warnings, genCalls, genModels,
                   lastPrompt, lastRet, call_arg>>

NextSelector == ApplySelector

SpecSelector == InitSelector /\ [][NextSelector]_vars

(***************************************************************************)
(* get_diagnosis applied to every text and every generation outcome        *)
(***************************************************************************)
InitRequester ==
    /\ pc = "requester_call"
    /\ api_key \in {k \in EnvKeys : k.set /\ k.v # ""}
    /\ client = TRUE
    /\ listCalls = 1
    /\ selection = Return(FallbackModel)
    /\ CHOSEN_MODEL = FallbackModel
    /\ symptom_input = <<>>
    /\ output_box = <<>>
    /\ warnings = 0
    /\ genCalls = 0
    /\ genModels = {}
    /\ lastPrompt = <<>>
    /\ lastRet = Idle
    /\ call_arg \in {[symptoms |-> t, outcome |-> o] :
                        t \in InputTexts, o \in GenOutcomes}
    /\ call_ret = Idle

ApplyRequester ==
    /\ pc = "requester_call"
    /\ call_ret' = get_diagnosis(call_arg.symptoms, call_arg.outcome)
    /\ genCalls' = genCalls + 1
    /\ genModels' = genModels \cup {ModelArg}
    /\ lastPrompt' = Prompt(call_arg.symptoms)
    /\ pc' = "requester_done"
    /\ UNCHANGED <<api_key, client, listCalls, selection, CHOSEN_MODEL,
                   symptom_input, output_box, warnings, lastRet, call_arg>>

NextRequester == ApplyRequester

SpecRequester == InitRequester /\ [][NextRequester]_vars

(***************************************************************************)
(* Properties of the model selector (under SpecSelector)                   *)
(***************************************************************************)
SelectorDone == pc = "selector_done"

\* the catalog was fetched: list() returned and the enumeration ended
Fetched(cat) == cat.listOk /\ cat.iterOk

\* an entry with a non-empty name that advertises generateContent
Supported(e) ==
    /\ e.hasName /\ e.name # ""
    /\ e.methods.shape \in {"list", "str"}
    /\ \E i \in 1..Len(e.methods.items) : e.methods.items[i] = GenerateContent

SupportedSet(cat) ==
    {cat.entries[i].name : i \in {k \in 1..Len(cat.entries) : Supported(cat.entries[k])}}

\* the preferred identifier of smallest index among those in S
BestPreferred(S) ==
    PREFERRED_MODELS[CHOOSE i \in 1..Len(PREFERRED_MODELS) :
        /\ PREFERRED_MODELS[i] \in S
        /\ \A j \in 1..(i - 1) : PREFERRED_MODELS[j] \notin S]

\* every capability attribute is absent or a list of strings
WellShaped(cat) ==
    \A i \in 1..Len(cat.entries) : cat.entries[i].methods.shape \in {"none", "list"}

\* C1: choose_best_model never raises: whatever the catalog does (list()
\* failing, the enumeration failing, entries without a name, capability
\* attributes absent or of a wrong shape) it returns a model identifier.
C1_NeverRaises ==
    SelectorDone => call_ret.kind = "return" /\ call_ret.value # ""

\* C2: for every fetched catalog whose supported set holds a preferred
\* identifier, choose_best_model returns the preferred identifier of smallest
\* index among those present.
C2_BestPreferred ==
    (SelectorDone /\ Fetched(call_arg)
        /\ SupportedSet(call_arg) \cap PreferredSet # {})
    => call_ret = Return(BestPreferred(SupportedSet(call_arg)))

\* C3: for every fetched catalog whose supported set is non-empty and holds no
\* preferred identifier, choose_best_model returns a member of the supported
\* set, and not the hard-coded default.
C3_MemberOfSupported ==
    (SelectorDone /\ Fetched(call_arg)
        /\ SupportedSet(call_arg) # {}
        /\ SupportedSet(call_arg) \cap PreferredSet = {})
    => /\ call_ret.kind = "return"
       /\ call_ret.value \in SupportedSet(call_arg)
       /\ call_ret.value # FallbackModel

\* C4: choose_best_model returns exactly "models/gemini-2.5-pro" when list()
\* fails, and when the catalog is fetched but no entry has both a non-empty
\* name and the generateContent capability.
C4_Fallback ==
    (SelectorDone
        /\ (~call_arg.listOk \/ (Fetched(call_arg) /\ SupportedSet(call_arg) = {})))
    => call_ret = Return("models/gemini-2.5-pro")

\* C2, C3 and C4 on the catalogs whose capability attributes are all absent
\* or lists (the catalogs on which the enumeration cannot raise)
SelectorOnWellShaped ==
    (SelectorDone /\ WellShaped(call_arg))
    => /\ (~call_arg.listOk \/ Fetched(call_arg)) => C2_BestPreferred /\ C3_MemberOfSupported /\ C4_Fallback
       /\ (call_arg.listOk /\ ~call_arg.iterOk) => call_ret.kind = "raise"

(***************************************************************************)
(* Properties of the diagnosis requester (under SpecRequester)             *)
(***************************************************************************)
RequesterDone == pc = "requester_done"

\* t occurs in s as a run of consecutive pieces
OccursIn(t, s) ==
    \E i \in 0..(Len(s) - Len(t)) : SubSeq(s, i + 1, i + Len(t)) = t

StartsWith(s, t) == Len(s) >= Len(t) /\ SubSeq(s, 1, Len(t)) = t

\* s is raw without a leading and a trailing run of whitespace, and has no
\* whitespace at either end
TrimmedFrom(s, raw) ==
    /\ s = <<>> \/ (s[1] \notin WhiteSpace /\ s[Len(s)] \notin WhiteSpace)
    /\ \E a \in 0..Len(raw) : \E b \in a..Len(raw) :
         /\ s = SubSeq(raw, a + 1, b)
         /\ \A i \in 1..a : raw[i] \in WhiteSpace
         /\ \A i \in (b + 1)..Len(raw) : raw[i] \in WhiteSpace

\* the response's candidate list is non-empty
HasCandidate(response) ==
    response.candidates.shape = "list" /\ Len(response.candidates.items) > 0

\* C6: get_diagnosis always returns a string and never raises, for every text
\* (the empty one included) and every outcome of the generation call; when the
\* call or the extraction fails with message M, the string starts with
\* "Error contacting Gemini API:" and contains M.
C6_AlwaysAString ==
    RequesterDone =>
        LET o == call_arg.outcome
            ret == call_ret.value
        IN  /\ call_ret.kind = "return"
            /\ ret \in Seq(STRING)
            /\ o.kind = "raise" =>
                 /\ StartsWith(ret, <<"Error contacting Gemini API:">>)
                 /\ OccursIn(o.msg, SubSeq(ret, 3, Len(ret)))
            /\ (o.kind = "return" /\ ~IsStr(o.response.text)
                    /\ o.response.candidates.shape = "int") =>
                 /\ StartsWith(ret, <<"Error contacting Gemini API:">>)
                 /\ OccursIn(<<"' has no len()">>, ret)

C6_Witness ==
    /\ RequesterDone
    /\ call_arg.symptoms = <<>>
    /\ call_arg.outcome.kind = "raise"
    /\ call_arg.outcome.msg = <<"timeout">>
    /\ call_ret = Return(<<"Error contacting Gemini API:", "\n", "timeout">>)

\* the texts C7 allows for a response: the direct text field if it is a str;
\* otherwise the first candidate's text or content field, whichever is a str;
\* otherwise the sentinel
ClaimedTexts(response) ==
    IF IsStr(response.text) THEN {Strip(response.text.items)}
    ELSE IF HasCandidate(response)
              /\ (IsStr(response.candidates.items[1].text)
                    \/ IsStr(response.candidates.items[1].content))
         THEN {Strip(f.items) :
                 f \in {g \in {response.candidates.items[1].text,
                               response.candidates.items[1].content} : IsStr(g)}}
         ELSE {<<"Received unexpected response format from Gemini API.">>}

\* C7: for every response of a successful generation call get_diagnosis
\* returns the direct text field if it is a string; otherwise the first
\* candidate's text or content field, whichever is a string; otherwise the
\* sentinel.  (Responses whose candidates value has no length are left out:
\* C6 covers them.)
C7_ExtractionOrder ==
    (RequesterDone /\ call_arg.outcome.kind = "return"
        /\ call_arg.outcome.response.candidates.shape # "int")
    => /\ call_ret.kind = "return"
       /\ call_ret.value \in ClaimedTexts(call_arg.outcome.response)

\* the str get_diagnosis extracts from the response, when it extracts one
ExtractedFrom(response) ==
    IF IsStr(response.text) THEN response.text
    ELSE IF HasCandidate(response)
         THEN ContentOrText(response.candidates.items[1])
         ELSE PyNone

\* C8: whenever get_diagnosis returns text extracted from the response, the
\* returned string is that text without its leading and trailing whitespace:
\* no whitespace at either end, the interior unchanged.
C8_Trimmed ==
    (RequesterDone /\ call_arg.outcome.kind = "return"
        /\ IsStr(ExtractedFrom(call_arg.outcome.response)))
    => /\ call_ret.kind = "return"
       /\ TrimmedFrom(call_ret.value, ExtractedFrom(call_arg.outcome.response).items)

C8_Witness ==
    /\ RequesterDone
    /\ call_arg.outcome.kind = "return"
    /\ call_arg.outcome.response.text = PyStr(<<"\n", "a", " ">>)
    /\ call_ret = Return(<<"a">>)

(***************************************************************************)
(* Properties of the process (under Spec)                                  *)
(***************************************************************************)
StartedUp == pc \in {"selected", "mainloop"}

C5_State ==
    StartedUp =>
        /\ CHOSEN_MODEL \notin {"", Undefined}
        /\ selection = Return(CHOSEN_MODEL)
        /\ listCalls = 1
        /\ genModels \subseteq {CHOSEN_MODEL}
        /\ genCalls > 0 => genModels = {CHOSEN_MODEL}

\* C5: after start-up CHOSEN_MODEL is a non-empty identifier, the value
\* choose_best_model returned; no later step changes it; the catalog is
\* fetched exactly once; every generation call passes it as its model.
C5_ChosenModelFixed ==
    /\ []C5_State
    /\ [][StartedUp => (StartedUp' /\ CHOSEN_MODEL' = CHOSEN_MODEL
                           /\ listCalls' = listCalls)]_vars

C5_Witness ==
    /\ pc = "mainloop"
    /\ genCalls = 2
    /\ CHOSEN_MODEL = "models/text-bison"
    /\ genModels = {"models/text-bison"}

\* C9: the credential check comes first: with GOOGLE_API_KEY absent or empty
\* the process stops before the client is created, so nothing is fetched,
\* selected or generated; and the missing credential is the only error that
\* stops the process: with the credential present start-up does not stop
\* before CHOSEN_MODEL is set.
C9_OnlyCredentialStops ==
    /\ KeyMissing =>
         /\ pc \in {"start", "fatal"}
         /\ ~client /\ listCalls = 0 /\ genCalls = 0
         /\ CHOSEN_MODEL = Undefined
    /\ pc \in {"fatal", "crashed"} => KeyMissing

\* a step of diagnose()
DiagnoseStep == warnings' + genCalls' # warnings + genCalls

\* C10: a diagnose action on an input that is empty after trimming makes no
\* generation call and leaves the output box unchanged; on any other input it
\* calls get_diagnosis once with the trimmed text, which makes one generation
\* call, and the returned string replaces the output box content verbatim;
\* get_diagnosis is never called with empty text.
C10_DiagnoseOnce ==
    /\ [][DiagnoseStep =>
            IF Strip(symptom_input) = <<>>
            THEN /\ genCalls' = genCalls
                 /\ output_box' = output_box
                 /\ lastPrompt' = lastPrompt
            ELSE /\ genCalls' = genCalls + 1
                 /\ warnings' = warnings
                 /\ lastPrompt' = Prompt(Strip(symptom_input))
                 /\ lastRet'.kind = "return"
                 /\ output_box' = lastRet'.value]_vars
    /\ [](genCalls > 0 => lastPrompt # Prompt(<<>>))

C10_Witness ==
    /\ pc = "mainloop"
    /\ warnings = 1
    /\ genCalls = 1
    /\ symptom_input = <<" ", " ">>
    /\ lastPrompt = Prompt(<<"a">>)
    /\ output_box = <<"see a doctor">>

====
